---------------------------- MODULE Spec2Model ----------------------------
(***************************************************************************)
(* Model of emote-cdn-rust (src/src/main.rs): the request pipeline of      *)
(* resize_handler over the shared moka cache, the container sniffer        *)
(* is_animated_webp, make_etag and header_matches.                         *)
(*                                                                         *)
(* Text (path segments, URLs) is a sequence of one-character strings.      *)
(* Bytes are integers 0..255, byte buffers are sequences of them.          *)
(* Indices of the Rust code are 0-based; Slice and At convert.             *)
(***************************************************************************)
EXTENDS Integers, Sequences, FiniteSets, TLC

VARIABLES
    tasks,      \* per request task: position in resize_handler and its locals
    cache,      \* state.cache: the entries moka holds for the modelled keys
    others,     \* number of entries moka holds for all other identifiers
    now,        \* the clock moka reads, in seconds
    lastInsert, \* history: per key, the latest cache.insert that returned, and
                \* the time of the latest hit on its entry
    wire,       \* the response a task has just returned, with its request
    snBuf,      \* is_animated_webp: the argument `data`
    snPc,       \* is_animated_webp: position in the function
    snPos,      \* is_animated_webp: the local `pos`
    snResult    \* is_animated_webp: the value returned

vars == <<tasks, cache, others, now, lastInsert, wire, snBuf, snPc, snPos, snResult>>
pipelineVars == <<tasks, cache, others, now, lastInsert, wire>>
snifferVars == <<snBuf, snPc, snPos, snResult>>

----------------------------------------------------------------------------
(* Sequences and bytes *)

Min(S) == CHOOSE x \in S : \A y \in S : x <= y

RECURSIVE SeqsUpTo(_, _)
\* all sequences over S of length 0..n
SeqsUpTo(S, n) ==
    IF n = 0 THEN {<<>>}
    ELSE LET shorter == SeqsUpTo(S, n - 1)
         IN  shorter \cup {Append(s, x) : s \in {t \in shorter : Len(t) = n - 1}, x \in S}

RECURSIVE Concat(_)
Concat(ss) == IF ss = <<>> THEN <<>> ELSE Head(ss) \o Concat(Tail(ss))

\* data[a..b] of Rust: 0-based, b exclusive
Slice(data, a, b) == SubSeq(data, a + 1, b)
\* data[i] of Rust
At(data, i) == data[i + 1]

\* u32::to_le_bytes, for sizes below 2^16
u32_le(n) == <<n % 256, (n \div 256) % 256, 0, 0>>
\* u32::from_le_bytes
u32_from_le_bytes(b) == b[1] + 256 * b[2] + 65536 * b[3] + 16777216 * b[4]

RIFF == <<82, 73, 70, 70>>
WEBP == <<87, 69, 66, 80>>
VP8X == <<86, 80, 56, 88>>
ANIM == <<65, 78, 73, 77>>
VP8L == <<86, 80, 56, 76>>
ANMF == <<65, 78, 77, 70>>

----------------------------------------------------------------------------
(* is_animated_webp, main.rs 231-271 *)

\* a faulty variant: rejected only when both signature fields differ
HeaderRejected_both(data) ==
    \/ Len(data) < 12
    \/ Slice(data, 0, 4) # RIFF /\ Slice(data, 8, 12) # WEBP

\* the signature test of lines 233-239: TRUE when the function returns false there
HeaderRejected(data) ==
    \/ Len(data) < 12
    \/ Slice(data, 0, 4) # RIFF
    \/ Slice(data, 8, 12) # WEBP

\* the loop condition of line 243
WalkContinues(data, pos) == pos + 8 <= Len(data)

chunk_type(data, pos) == Slice(data, pos, pos + 4)
chunk_size(data, pos) == u32_from_le_bytes(Slice(data, pos + 4, pos + 8))

\* a faulty variant: the alpha bit 0x10 tested in place of 0x02
Vp8xVerdict_alpha_bit(data, pos) ==
    IF pos + 8 < Len(data)
    THEN (At(data, pos + 8) \div 16) % 2 = 1
    ELSE FALSE

\* lines 251-255: the VP8X verdict
Vp8xVerdict(data, pos) ==
    IF pos + 8 < Len(data)
    THEN (At(data, pos + 8) \div 2) % 2 = 1      \* (flags & 0x02) != 0
    ELSE FALSE

\* lines 263-267: the position of the next chunk
NextPos(data, pos) ==
    pos + 8 + chunk_size(data, pos) + (IF chunk_size(data, pos) % 2 = 1 THEN 1 ELSE 0)

\* one iteration of the loop body, lines 244-267: a verdict, or "next"
ChunkVerdict(data, pos) ==
    IF chunk_type(data, pos) = VP8X THEN (IF Vp8xVerdict(data, pos) THEN "animated" ELSE "static")
    ELSE IF chunk_type(data, pos) = ANIM THEN "animated"
    ELSE "next"

RECURSIVE WalkFrom(_, _)
WalkFrom(data, pos) ==
    IF WalkContinues(data, pos)
    THEN CASE ChunkVerdict(data, pos) = "animated" -> TRUE
           [] ChunkVerdict(data, pos) = "static" -> FALSE
           [] OTHER -> WalkFrom(data, NextPos(data, pos))
    ELSE FALSE

is_animated_webp(data) ==
    IF HeaderRejected(data) THEN FALSE ELSE WalkFrom(data, 12)

----------------------------------------------------------------------------
(* Inputs of the sniffer: containers built from chunks, and damaged ones *)

MaxChunks == 2

Chunk(type, payload) ==
    type \o u32_le(Len(payload)) \o payload \o (IF Len(payload) % 2 = 1 THEN <<0>> ELSE <<>>)

Container(chunks) ==
    RIFF \o u32_le(4 + Len(Concat(chunks))) \o WEBP \o Concat(chunks)

ChunkTypes == {VP8X, ANIM, VP8L, ANMF}
\* first payload byte: the VP8X flags (0x02 animation, 0x10 alpha)
Payloads == {<<>>, <<0>>, <<2>>, <<16, 0>>, <<18, 0, 0>>}
ChunkVariants == {Chunk(t, p) : t \in ChunkTypes, p \in Payloads}
ChunkLists == SeqsUpTo(ChunkVariants, MaxChunks)
Containers == {Container(cs) : cs \in ChunkLists}

\* a container cut short, and buffers without the signature
Truncated == {SubSeq(c, 1, n) : c \in {Container(<<x>>) : x \in ChunkVariants}, n \in {0, 4, 11, 12, 16, 19, 20}}
BadMagic == {<<82, 73, 70, 88>> \o SubSeq(c, 5, Len(c)) : c \in {Container(<<x>>) : x \in ChunkVariants}}
              \cup {SubSeq(c, 1, 8) \o <<87, 69, 66, 77>> \o SubSeq(c, 13, Len(c)) : c \in {Container(<<x>>) : x \in ChunkVariants}}
\* a chunk header that declares far more payload than the buffer holds
Oversized == {RIFF \o u32_le(14) \o WEBP \o t \o sz \o <<2, 0>> :
                t \in ChunkTypes, sz \in {<<255, 255, 0, 0>>, <<1, 0, 0, 64>>}}
SnifferInputs == Containers \cup Truncated \cup BadMagic \cup Oversized

\* the chunk list of a buffer read as the container format defines it
RECURSIVE ChunksTile(_, _)
ChunksTile(data, pos) ==
    \/ pos = Len(data)
    \/ /\ pos + 8 <= Len(data)
       /\ NextPos(data, pos) <= Len(data)
       /\ ChunksTile(data, NextPos(data, pos))

WellFormed(data) ==
    /\ ~HeaderRejected(data)
    /\ u32_from_le_bytes(Slice(data, 4, 8)) = Len(data) - 8
    /\ ChunksTile(data, 12)

RECURSIVE ChunkOffsets(_, _)
\* offsets of the chunks of a well-formed container
ChunkOffsets(data, pos) ==
    IF pos + 8 <= Len(data) THEN {pos} \cup ChunkOffsets(data, NextPos(data, pos)) ELSE {}

HasChunk(data, type) == \E p \in ChunkOffsets(data, 12) : chunk_type(data, p) = type

----------------------------------------------------------------------------
(* The sniffer as a state machine: one step per loop iteration *)

SnifferIdle ==
    /\ snBuf = <<>>
    /\ snPc = "idle"
    /\ snPos = 0
    /\ snResult = FALSE

\* lines 233-242
SnCheckHeader ==
    /\ snPc = "entry"
    /\ IF HeaderRejected(snBuf)
       THEN snPc' = "returned" /\ snResult' = FALSE /\ snPos' = snPos
       ELSE snPc' = "loop" /\ snPos' = 12 /\ snResult' = snResult
    /\ UNCHANGED <<snBuf, pipelineVars>>

\* lines 243-268: one iteration
SnWalkChunk ==
    /\ snPc = "loop"
    /\ WalkContinues(snBuf, snPos)
    /\ \/ /\ ChunkVerdict(snBuf, snPos) = "animated"
          /\ snPc' = "returned" /\ snResult' = TRUE /\ snPos' = snPos
       \/ /\ ChunkVerdict(snBuf, snPos) = "static"
          /\ snPc' = "returned" /\ snResult' = FALSE /\ snPos' = snPos
       \/ /\ ChunkVerdict(snBuf, snPos) = "next"
          /\ snPos' = NextPos(snBuf, snPos)
          /\ UNCHANGED <<snPc, snResult>>
    /\ UNCHANGED <<snBuf, pipelineVars>>

\* line 270
SnWalkEnd ==
    /\ snPc = "loop"
    /\ ~WalkContinues(snBuf, snPos)
    /\ snPc' = "returned" /\ snResult' = FALSE
    /\ UNCHANGED <<snPos, snBuf, pipelineVars>>

----------------------------------------------------------------------------
(* Identifier and source URL, main.rs 107-117, 135-138, 301-306 *)

\* a faulty variant: the identifier taken up to the last '.' (rsplit)
emoji_id_last_dot(name) ==
    LET dots == {i \in 1..Len(name) : name[i] = "."}
    IN  IF dots = {} THEN name
        ELSE SubSeq(name, 1, (CHOOSE i \in dots : \A j \in dots : j <= i) - 1)

\* name.split('.').next(): the part before the first '.'
emoji_id(name) ==
    LET dots == {i \in 1..Len(name) : name[i] = "."}
    IN  IF dots = {} THEN name ELSE SubSeq(name, 1, Min(dots) - 1)

\* format!("https://cdn.discordapp.com/emojis/{}?size=160&animated=true", id)
format_src(id) ==
    <<"https://cdn.discordapp.com/emojis/">> \o id \o <<"?size=160&animated=true">>

----------------------------------------------------------------------------
(* make_etag and header_matches, main.rs 273-284 *)
(* A header value is a sequence of items: an item is one byte, Ch(c), or   *)
(* the 40 hex digits of a SHA-1 digest, kept symbolic as the digested      *)
(* bytes (SHA-1 is taken to be collision-free).                            *)

Ch(c) == [k |-> "ch", v |-> <<c>>]
Sha1Hex(bytes) == [k |-> "sha1", v |-> bytes]

\* format!("W/\"{:x}\"", Sha1::digest(bytes))
make_etag(bytes) == <<Ch(87), Ch(47), Ch(34), Sha1Hex(bytes), Ch(34)>>

COMMA == Ch(44)
SPACE == Ch(32)
TAB == Ch(9)

\* HeaderValue::to_str succeeds only on visible ASCII and tab
IsVisibleAscii(item) ==
    \/ item.k = "sha1"
    \/ item.k = "ch" /\ (item.v[1] = 9 \/ (item.v[1] >= 32 /\ item.v[1] < 127))

to_str_ok(value) == \A i \in 1..Len(value) : IsVisibleAscii(value[i])

\* str::split(','): the pieces between the commas
SplitComma(s) ==
    LET cuts == {0, Len(s) + 1} \cup {i \in 1..Len(s) : s[i] = COMMA}
    IN  {SubSeq(s, a + 1, b - 1) : <<a, b>> \in
            {p \in cuts \X cuts : p[1] < p[2] /\ ~\E c \in cuts : p[1] < c /\ c < p[2]}}

IsSpace(item) == item = SPACE \/ item = TAB

\* str::trim
Trim(s) ==
    LET keep == {i \in 1..Len(s) : ~IsSpace(s[i])}
    IN  IF keep = {} THEN <<>>
        ELSE SubSeq(s, Min(keep), CHOOSE i \in keep : \A j \in keep : j <= i)

\* headers.get(name): absent, or the first value of that name
NoHeader == [present |-> FALSE, value |-> <<>>]
Header(value) == [present |-> TRUE, value |-> value]

\* a faulty variant: the elements compared without the trim of line 282
header_matches_untrimmed(h, value) ==
    IF ~h.present THEN FALSE
    ELSE IF ~to_str_ok(h.value) THEN FALSE
    ELSE \E t \in SplitComma(h.value) : t = value

header_matches(h, value) ==
    IF ~h.present THEN FALSE
    ELSE IF ~to_str_ok(h.value) THEN FALSE
    ELSE \E t \in SplitComma(h.value) : Trim(t) = value

----------------------------------------------------------------------------
(* The codec (crate image), main.rs 193-213.  It is a library outside the  *)
(* repository: the model keeps of a PNG only the signature, the IHDR       *)
(* fields the pipeline depends on (width, height, bit depth) and one byte  *)
(* standing for the pixel data; everything else fails to decode.           *)

PNG_SIGNATURE == <<137, 80, 78, 71, 13, 10, 26, 10>>
IHDR == <<73, 72, 68, 82>>
u32_be(n) == <<0, 0, (n \div 256) % 256, n % 256>>
u32_from_be_bytes(b) == 16777216 * b[1] + 65536 * b[2] + 256 * b[3] + b[4]

Png(w, h, depth, px) ==
    PNG_SIGNATURE \o <<0, 0, 0, 13>> \o IHDR \o u32_be(w) \o u32_be(h) \o <<depth, 6, 0, 0, 0>> \o <<px>>

DecodeError == [ok |-> FALSE, w |-> 0, h |-> 0, depth |-> 0, px |-> 0]

\* image::load_from_memory(&body), line 193
load_from_memory(body) ==
    IF /\ Len(body) = 30
       /\ Slice(body, 0, 8) = PNG_SIGNATURE
       /\ Slice(body, 12, 16) = IHDR
       /\ u32_from_be_bytes(Slice(body, 16, 20)) >= 1
       /\ u32_from_be_bytes(Slice(body, 20, 24)) >= 1
    THEN [ok |-> TRUE,
          w |-> u32_from_be_bytes(Slice(body, 16, 20)),
          h |-> u32_from_be_bytes(Slice(body, 20, 24)),
          depth |-> At(body, 24),
          px |-> At(body, 29)]
    ELSE DecodeError

BOX == 160

\* round to nearest, halves up: f64::round of a / b for a, b > 0
RoundDiv(a, b) == (2 * a + b) \div (2 * b)
Max(a, b) == IF a >= b THEN a ELSE b

\* a faulty variant: an image that already fits the box is left as it is
resize_no_upscale(img) ==
    IF img.w <= BOX /\ img.h <= BOX THEN img
    ELSE IF img.w >= img.h
    THEN [img EXCEPT !.w = Max(RoundDiv(img.w * BOX, img.w), 1), !.h = Max(RoundDiv(img.h * BOX, img.w), 1)]
    ELSE [img EXCEPT !.w = Max(RoundDiv(img.w * BOX, img.h), 1), !.h = Max(RoundDiv(img.h * BOX, img.h), 1)]

\* img.resize(160, 160, Lanczos3), line 206: the dimensions image's
\* resize_dimensions(w, h, 160, 160, fill = false) gives.  The crate computes
\* them in f64 ((w as f64 * ratio).round()); for sides below 2496 that equals
\* the exact quotient rounded half up, which is what RoundDiv computes
resize(img) ==
    IF img.w >= img.h      \* wratio <= hratio: the width decides the ratio
    THEN [img EXCEPT !.w = Max(RoundDiv(img.w * BOX, img.w), 1), !.h = Max(RoundDiv(img.h * BOX, img.w), 1)]
    ELSE [img EXCEPT !.w = Max(RoundDiv(img.w * BOX, img.h), 1), !.h = Max(RoundDiv(img.h * BOX, img.h), 1)]

\* resized.write_to(.., ImageFormat::WebP), line 210: the encoder takes 8-bit
\* samples only; the still image is written as one VP8L chunk
encode_ok(img) == img.depth = 8
write_to(img) == Container(<<Chunk(VP8L, <<47, img.w - 1, img.h - 1, img.px>>)>>)

\* a faulty variant: the body is decoded before it is classified
process_body_decode_first(body) ==
    LET img == load_from_memory(body)
    IN  IF ~img.ok THEN [outcome |-> "decode_err", bytes |-> <<>>]
        ELSE IF is_animated_webp(body) THEN [outcome |-> "animated", bytes |-> body]
        ELSE IF ~encode_ok(resize(img)) THEN [outcome |-> "encode_err", bytes |-> <<>>]
        ELSE [outcome |-> "static", bytes |-> write_to(resize(img))]

\* lines 173-214: what the handler does with a fetched body, up to the bytes
\* it is about to insert
process_body(body) ==
    IF is_animated_webp(body)
    THEN [outcome |-> "animated", bytes |-> body]
    ELSE LET img == load_from_memory(body)
         IN  IF ~img.ok THEN [outcome |-> "decode_err", bytes |-> <<>>]
             ELSE IF ~encode_ok(resize(img)) THEN [outcome |-> "encode_err", bytes |-> <<>>]
             ELSE [outcome |-> "static", bytes |-> write_to(resize(img))]

----------------------------------------------------------------------------
(* The cache (crate moka), main.rs 45-48, 119, 179, 217 *)

max_capacity == 50000
time_to_live == 24 * 3600

None == [some |-> FALSE, v |-> <<>>]
Some(v) == [some |-> TRUE, v |-> v]

\* a faulty variant: the time to live counted from the latest access (time to idle)
Expired_idle(e, t) ==
    \A i \in lastInsert :
        i.key = e.key => t - (IF i.hitAt > e.at THEN i.hitAt ELSE e.at) >= time_to_live

\* a faulty variant: an entry still live at the instant its time to live ends
Expired_late(e, t) == t - e.at > time_to_live

\* an entry is expired once time_to_live has passed since its insert
Expired(e, t) == t - e.at >= time_to_live

\* the entries cache.get(key) can return at time t
Live(c, key, t) == {e \in c : e.key = key /\ ~Expired(e, t)}

\* a faulty variant: a lookup that never finds the entry
get_never(c, key, t) == None

\* state.cache.get(&key), line 119
get(c, key, t) ==
    IF Live(c, key, t) = {} THEN None ELSE Some((CHOOSE e \in Live(c, key, t) : TRUE).bytes)

\* a faulty variant: the entry the key already has is kept beside the new one
insert_beside(c, key, bytes, t, by) ==
    c \cup
    {[key |-> key, bytes |-> bytes, at |-> t, by |-> by,
      served |-> FALSE, servedBody |-> <<>>, servedEtag |-> <<>>]}

\* state.cache.insert(key, bytes), lines 179 and 217: replaces the entry of the key.
\* by, served, servedBody and servedEtag are history: the task that inserted the
\* entry while it has not yet returned, and what it returned once it has
insert(c, key, bytes, t, by) ==
    {e \in c : e.key # key} \cup
    {[key |-> key, bytes |-> bytes, at |-> t, by |-> by,
      served |-> FALSE, servedBody |-> <<>>, servedEtag |-> <<>>]}

NoEntry == [key |-> <<>>, bytes |-> <<>>, at |-> 0, by |-> "none",
            served |-> FALSE, servedBody |-> <<>>, servedEtag |-> <<>>]

----------------------------------------------------------------------------
(* Requests, origin answers and responses *)

Tasks == {"t1", "t2"}
MaxTicks == 3
TickSecs == 12 * 3600

\* path segments of GET /e/:name
Names == {<<"1">>, <<"1", ".", "w">>, <<"1", ".", "a", ".", "w">>, <<"2">>}

\* bodies the origin can send
AnimSrc == Container(<<Chunk(VP8X, <<2, 0>>), Chunk(ANIM, <<0, 0>>)>>)
PngSrc == Png(500, 100, 8, 7)
Png16Src == Png(32, 64, 16, 9)
JunkSrc == <<0, 1, 2>>
Bodies == {AnimSrc, PngSrc, Png16Src, JunkSrc}

\* what .send().await yields: a transport error or a response with a status
Statuses == {200, 304, 404, 500}
SendResults == {<<"err", 0>>} \cup {<<"ok", st>> : st \in Statuses}
\* a faulty variant: 3xx statuses taken for success
is_success_lax(status) == status >= 200 /\ status < 400
is_success(status) == status >= 200 /\ status < 300
\* what resp.bytes().await yields: a transport error or the body
ReadResults == {<<"err">>} \cup {<<"ok", b>> : b \in Bodies}

\* If-None-Match values a client may send
Quoted == <<Ch(34), Ch(120), Ch(34)>>
OutputAssets == {process_body(b).bytes : b \in {x \in Bodies : process_body(x).outcome \in {"animated", "static"}}}
HeaderValues ==
    UNION {{make_etag(a),
            Quoted \o <<COMMA, SPACE>> \o make_etag(a) \o <<TAB>>,
            make_etag(a) \o <<COMMA, Ch(255)>>,
            make_etag(a) \o <<SPACE>> \o Quoted} : a \in OutputAssets}
Headers == {NoHeader} \cup {Header(v) : v \in HeaderValues}

\* name, key (emoji_id and key), src and bytes are the handler's locals.  The
\* rest is history: what send() and bytes() yielded, the number of fetches
\* issued, whether cache.insert was executed, and the ETags returned by the
\* hits on the entry this task has inserted and not yet answered for
NoSend == <<"none", 0>>
NoRead == <<"none">>
IdleTask == [pc |-> "idle", name |-> <<>>, key |-> <<>>, src |-> <<>>, bytes |-> <<>>,
             sendResult |-> NoSend, readResult |-> NoRead, fetches |-> 0, wrote |-> FALSE,
             hitEtags |-> {}]

NoEtag == [present |-> FALSE, value |-> <<>>]
\* status, etag, body, text and xsrc are the response; task, name, inm and
\* key the request it answers; path is "hit" or "miss", or "dropped" for a
\* request that was dropped without a response; asset is the Output Asset of
\* the request, hit the entry a hit was served from
NoWire == [on |-> FALSE, task |-> "none", name |-> <<>>, inm |-> NoHeader, key |-> <<>>,
           path |-> "", status |-> 0, etag |-> NoEtag, body |-> <<>>, text |-> "",
           xsrc |-> <<>>, asset |-> <<>>, hit |-> NoEntry,
           sendResult |-> NoSend, readResult |-> NoRead, fetches |-> 0, wrote |-> FALSE,
           hitEtags |-> {}]

\* with_common_headers(etag, src), lines 286-299, and the body beside it
NotModified(bytes) ==
    [status |-> 304, etag |-> [present |-> TRUE, value |-> make_etag(bytes)],
     body |-> <<>>, text |-> "", xsrc |-> <<"-">>]
\* a faulty variant: the ETag computed before the body is in the buffer
ServeBody_early_etag(bytes, id) ==
    [status |-> 200, etag |-> [present |-> TRUE, value |-> make_etag(<<>>)],
     body |-> bytes, text |-> "", xsrc |-> format_src(id)]
ServeBody(bytes, id) ==
    [status |-> 200, etag |-> [present |-> TRUE, value |-> make_etag(bytes)],
     body |-> bytes, text |-> "", xsrc |-> format_src(id)]
ErrorResponse(status, text) ==
    [status |-> status, etag |-> NoEtag, body |-> <<>>, text |-> text, xsrc |-> <<>>]

\* lines 121-129: the response to a cache hit
hit_response(bytes, inm, id) ==
    IF header_matches(inm, make_etag(bytes)) THEN NotModified(bytes) ELSE ServeBody(bytes, id)

\* lines 181-189 and 223-228: the response after the insert
miss_response(bytes, inm, id) == ServeBody(bytes, id)

\* the response task t returns, with the request it answers
Returned(t, task, inm, path, r, asset, hit) ==
    [on |-> TRUE, task |-> t, name |-> task.name, inm |-> inm, key |-> task.key,
     path |-> path, status |-> r.status, etag |-> r.etag, body |-> r.body, text |-> r.text,
     xsrc |-> r.xsrc, asset |-> asset, hit |-> hit,
     sendResult |-> task.sendResult, readResult |-> task.readResult,
     fetches |-> task.fetches, wrote |-> task.wrote, hitEtags |-> task.hitEtags]

----------------------------------------------------------------------------
(* resize_handler, main.rs 100-229: one action per stretch between awaits. *)
(* The header map is an input that only the response depends on: its       *)
(* If-None-Match value, inm, is drawn in the step that returns.            *)

Init ==
    /\ tasks = [t \in Tasks |-> IdleTask]
    /\ cache = {}
    /\ others = 0
    /\ now = 0
    /\ lastInsert = {}
    /\ wire = NoWire
    /\ SnifferIdle

\* lines 105-130: a request arrives, the cache is looked up; on a hit the
\* response is returned at once
StartHit(t, name, inm) ==
    /\ ~wire.on
    /\ tasks[t].pc = "idle"
    /\ get(cache, emoji_id(name), now).some
    /\ LET key == emoji_id(name)
           e == CHOOSE x \in Live(cache, key, now) : TRUE
           task == [IdleTask EXCEPT !.name = name, !.key = key]
           r == hit_response(get(cache, key, now).v, inm, key)
       IN  /\ wire' = Returned(t, task, inm, "hit", r, e.bytes, e)
           /\ tasks' = [u \in Tasks |->
                          IF u = e.by THEN [tasks[u] EXCEPT !.hitEtags = @ \cup {r.etag.value}]
                          ELSE tasks[u]]
           /\ lastInsert' = {IF i.key = key THEN [i EXCEPT !.hitAt = now] ELSE i : i \in lastInsert}
    /\ UNCHANGED <<cache, others, now, snifferVars>>

\* lines 105-146: a request arrives, the cache has no entry, the fetch is sent
StartMiss(t, name) ==
    /\ ~wire.on
    /\ tasks[t].pc = "idle"
    /\ ~get(cache, emoji_id(name), now).some
    /\ tasks' = [tasks EXCEPT ![t] =
                    [IdleTask EXCEPT !.pc = "sent", !.name = name, !.key = emoji_id(name),
                                     !.src = format_src(emoji_id(name)), !.fetches = 1]]
    /\ UNCHANGED <<cache, others, now, lastInsert, wire, snifferVars>>

\* an error response is returned: the task ends
Fail(t, task, inm, status, text) ==
    /\ wire' = Returned(t, task, inm, "miss", ErrorResponse(status, text), <<>>, NoEntry)
    /\ tasks' = [tasks EXCEPT ![t] = IdleTask]

\* lines 147-162: the origin's response head, or a transport error, arrives
SendReturns(t, result, inm) ==
    /\ ~wire.on
    /\ tasks[t].pc = "sent"
    /\ LET task == [tasks[t] EXCEPT !.sendResult = result]
       IN  IF result[1] = "err" THEN Fail(t, task, inm, 502, "upstream fetch failed")
           ELSE IF result[2] = 404 THEN Fail(t, task, inm, 404, "emoji not found")
           ELSE IF ~is_success(result[2]) THEN Fail(t, task, inm, 502, "upstream error")
           ELSE /\ tasks' = [tasks EXCEPT ![t] = [task EXCEPT !.pc = "reading"]]
                /\ inm = NoHeader
                /\ wire' = wire
    /\ UNCHANGED <<cache, others, now, lastInsert, snifferVars>>

\* a faulty variant: the encoder adds to the output a byte that differs from one
\* run to the next
BodyReturns_stamped(t, result, inm) ==
    /\ ~wire.on
    /\ tasks[t].pc = "reading"
    /\ LET task == [tasks[t] EXCEPT !.readResult = result]
       IN  IF result[1] = "err" THEN Fail(t, task, inm, 502, "upstream read failed")
           ELSE IF process_body(result[2]).outcome = "decode_err"
           THEN Fail(t, task, inm, 415, "decode failed")
           ELSE IF process_body(result[2]).outcome = "encode_err"
           THEN Fail(t, task, inm, 500, "encode failed")
           ELSE /\ tasks' = [tasks EXCEPT ![t] =
                               [task EXCEPT !.pc = "insert",
                                            !.bytes = process_body(result[2]).bytes \o
                                                      (IF t = "t1" THEN <<1>> ELSE <<2>>)]]
                /\ inm = NoHeader
                /\ wire' = wire
    /\ UNCHANGED <<cache, others, now, lastInsert, snifferVars>>

\* a faulty variant: the fetched body is inserted before it is decoded
BodyReturns_insert_first(t, result, inm) ==
    /\ ~wire.on
    /\ tasks[t].pc = "reading"
    /\ LET task == [tasks[t] EXCEPT !.readResult = result]
       IN  IF result[1] = "err"
           THEN Fail(t, task, inm, 502, "upstream read failed") /\ cache' = cache
           ELSE /\ cache' = insert(cache, task.key, result[2], now, "none")
                /\ IF process_body(result[2]).outcome = "decode_err"
                   THEN Fail(t, task, inm, 415, "decode failed")
                   ELSE IF process_body(result[2]).outcome = "encode_err"
                   THEN Fail(t, task, inm, 500, "encode failed")
                   ELSE /\ tasks' = [tasks EXCEPT ![t] =
                                       [task EXCEPT !.pc = "insert", !.bytes = process_body(result[2]).bytes]]
                        /\ inm = NoHeader
                        /\ wire' = wire
    /\ UNCHANGED <<others, now, lastInsert, snifferVars>>

\* lines 164-214: the body, or a transport error, arrives; the body is
\* classified and, when static, decoded, resized and encoded
BodyReturns(t, result, inm) ==
    /\ ~wire.on
    /\ tasks[t].pc = "reading"
    /\ LET task == [tasks[t] EXCEPT !.readResult = result]
       IN  IF result[1] = "err" THEN Fail(t, task, inm, 502, "upstream read failed")
           ELSE IF process_body(result[2]).outcome = "decode_err"
           THEN Fail(t, task, inm, 415, "decode failed")
           ELSE IF process_body(result[2]).outcome = "encode_err"
           THEN Fail(t, task, inm, 500, "encode failed")
           ELSE /\ tasks' = [tasks EXCEPT ![t] =
                               [task EXCEPT !.pc = "insert", !.bytes = process_body(result[2]).bytes]]
                /\ inm = NoHeader
                /\ wire' = wire
    /\ UNCHANGED <<cache, others, now, lastInsert, snifferVars>>

\* lines 179 and 217: cache.insert(key, bytes) takes effect
Insert(t) ==
    /\ ~wire.on
    /\ tasks[t].pc = "insert"
    /\ cache' = insert(cache, tasks[t].key, tasks[t].bytes, now, t)
    /\ lastInsert' = {i \in lastInsert : i.key # tasks[t].key} \cup
                     {[key |-> tasks[t].key, bytes |-> tasks[t].bytes, at |-> now, evicted |-> FALSE,
                       hitAt |-> now]}
    /\ tasks' = [tasks EXCEPT ![t].pc = "respond", ![t].wrote = TRUE]
    /\ UNCHANGED <<others, now, wire, snifferVars>>

\* lines 181-189 and 219-228: the insert has returned, the body is served
Respond(t, inm) ==
    /\ ~wire.on
    /\ tasks[t].pc = "respond"
    /\ LET r == miss_response(tasks[t].bytes, inm, tasks[t].key)
       IN  /\ wire' = Returned(t, tasks[t], inm, "miss", r, tasks[t].bytes, NoEntry)
           /\ cache' = {IF e.by = t
                        THEN [e EXCEPT !.by = "none", !.served = TRUE,
                                       !.servedBody = r.body, !.servedEtag = r.etag.value]
                        ELSE e : e \in cache}
    /\ tasks' = [tasks EXCEPT ![t] = IdleTask]
    /\ UNCHANGED <<others, now, lastInsert, snifferVars>>

\* the client has read the response, or has gone
Deliver ==
    /\ wire.on
    /\ wire' = NoWire
    /\ UNCHANGED <<tasks, cache, others, now, lastInsert, snifferVars>>

\* what is observed of a request whose task was dropped: no response
Dropped(t) == Returned(t, tasks[t], NoHeader, "dropped", ErrorResponse(0, ""), <<>>, NoEntry)

\* a faulty variant: the dropped task stores the part of the body it has read
Abandon_caches(t) ==
    /\ ~wire.on
    /\ tasks[t].pc \in {"sent", "reading", "insert", "respond"}
    /\ tasks' = [tasks EXCEPT ![t] = IdleTask]
    /\ cache' = IF tasks[t].pc = "reading"
                THEN insert(cache, tasks[t].key, SubSeq(AnimSrc, 1, 12), now, "none")
                ELSE {IF e.by = t THEN [e EXCEPT !.by = "none"] ELSE e : e \in cache}
    /\ wire' = Dropped(t)
    /\ UNCHANGED <<others, now, lastInsert, snifferVars>>

\* the inbound connection is dropped: the task is dropped at its await (the
\* send of lines 141-146, the body read of 164, the insert of 179 or 217)
Abandon(t) ==
    /\ ~wire.on
    /\ tasks[t].pc \in {"sent", "reading", "insert", "respond"}
    /\ tasks' = [tasks EXCEPT ![t] = IdleTask]
    /\ cache' = {IF e.by = t THEN [e EXCEPT !.by = "none"] ELSE e : e \in cache}
    /\ wire' = Dropped(t)
    /\ UNCHANGED <<others, now, lastInsert, snifferVars>>

----------------------------------------------------------------------------
(* The cache's own steps and the clock *)

Tick ==
    /\ ~wire.on
    /\ now + TickSecs <= MaxTicks * TickSecs
    /\ now' = now + TickSecs
    /\ UNCHANGED <<tasks, cache, others, lastInsert, wire, snifferVars>>

\* requests for identifiers outside Names fill the cache up to its capacity
OtherInserts ==
    /\ ~wire.on
    /\ others + max_capacity <= max_capacity
    /\ others' = others + max_capacity
    /\ UNCHANGED <<tasks, cache, now, lastInsert, wire, snifferVars>>

\* moka's housekeeping removes expired entries
EvictExpired ==
    /\ ~wire.on
    /\ \E e \in cache : Expired(e, now)
    /\ cache' = {e \in cache : ~Expired(e, now)}
    /\ UNCHANGED <<tasks, others, now, lastInsert, wire, snifferVars>>

\* moka's housekeeping evicts an entry while the cache is over max_capacity
EvictOverCapacity ==
    /\ ~wire.on
    /\ Cardinality(cache) + others > max_capacity
    /\ \/ /\ others' = others - 1
          /\ UNCHANGED <<cache, lastInsert>>
       \/ \E e \in cache :
            /\ cache' = cache \ {e}
            /\ lastInsert' = {IF i.key = e.key THEN [i EXCEPT !.evicted = TRUE] ELSE i : i \in lastInsert}
            /\ others' = others
    /\ UNCHANGED <<tasks, now, wire, snifferVars>>

\* the steps of the request tasks, for requests and origin answers drawn from
\* the given sets
Handler(names, headers, sends, reads) ==
    \/ \E t \in Tasks, name \in names, inm \in headers : StartHit(t, name, inm)
    \/ \E t \in Tasks, name \in names : StartMiss(t, name)
    \/ \E t \in Tasks, result \in sends, inm \in headers : SendReturns(t, result, inm)
    \/ \E t \in Tasks, result \in reads, inm \in headers : BodyReturns(t, result, inm)
    \/ \E t \in Tasks : Insert(t)
    \/ \E t \in Tasks, inm \in headers : Respond(t, inm)
    \/ \E t \in Tasks : Abandon(t)
    \/ Deliver

\* the request pipeline over every request and origin answer of the model,
\* within the time to live and below the capacity
Next == Handler(Names, Headers, SendResults, ReadResults)

Spec == Init /\ [][Next]_vars

\* the cache over time and under capacity pressure, for requests of one
\* identifier
CacheNames == {<<"1">>, <<"1", ".", "w">>}
CacheHeaders == {NoHeader, Header(make_etag(AnimSrc))}
CacheReads == {<<"err">>, <<"ok", AnimSrc>>, <<"ok", PngSrc>>}
CacheNext ==
    \/ Handler(CacheNames, CacheHeaders, SendResults, CacheReads)
    \/ Tick
    \/ OtherInserts
    \/ EvictExpired
    \/ EvictOverCapacity

CacheSpec == Init /\ [][CacheNext]_vars

\* the static path for still images of many shapes: wider and taller than the
\* box, equal to it, smaller than it, and so flat that a side rounds to zero
ResizeDims == {<<500, 100>>, <<100, 500>>, <<160, 160>>, <<16, 16>>, <<1, 1>>, <<320, 1>>,
               <<1000, 1>>, <<3, 2>>, <<2, 3>>, <<161, 160>>, <<64, 1>>, <<1, 64>>,
               <<159, 160>>, <<7, 1000>>}
ResizeReads == {<<"ok", Png(d[1], d[2], 8, 7)>> : d \in ResizeDims}
ResizeNext == Handler({<<"1">>}, {NoHeader}, {<<"ok", 200>>}, ResizeReads)

ResizeSpec == Init /\ [][ResizeNext]_vars

\* the pipeline with the scheduling of the runtime: a task that can run does
\* run (the insert, the response, the delivery); fairness is strong for the
\* task steps because each is disabled for a moment whenever another task's
\* response is on the wire.  The answers of the origin are not the program's
\* steps: the client is built without a timeout (lines 37-43), so nothing in
\* the program ends the wait for them
WaitNext == Handler({<<"1">>, <<"2">>}, {NoHeader}, SendResults, {<<"err">>, <<"ok", AnimSrc>>})
Scheduling ==
    /\ \A t \in Tasks : SF_vars(Insert(t))
    /\ \A t \in Tasks : SF_vars(Respond(t, NoHeader))
    /\ WF_vars(Deliver)
WaitSpec == Init /\ [][WaitNext]_vars /\ Scheduling

\* is_animated_webp on every buffer of SnifferInputs
SnifferInit ==
    /\ tasks = [t \in Tasks |-> IdleTask]
    /\ cache = {}
    /\ others = 0
    /\ now = 0
    /\ lastInsert = {}
    /\ wire = NoWire
    /\ snBuf \in SnifferInputs
    /\ snPc = "entry"
    /\ snPos = 0
    /\ snResult = FALSE

SnifferNext == SnCheckHeader \/ SnWalkChunk \/ SnWalkEnd

SnifferSpec == SnifferInit /\ [][SnifferNext]_vars

----------------------------------------------------------------------------
(* Properties *)

\* a validator equal to tag is an element of the value split on ',' and trimmed
Listed(h, tag) == h.present /\ \E piece \in SplitComma(h.value) : Trim(piece) = tag
\* ... and the value is text (visible ASCII)
ListedText(h, tag) == h.present /\ to_str_ok(h.value) /\ Listed(h, tag)

\* C1 as claimed: on a cache hit with bytes B and T = make_etag(B), the response
\* is 304 without body when If-None-Match lists T, and 200 with body B otherwise.
C1_Claim ==
    (wire.on /\ wire.path = "hit") =>
        IF Listed(wire.inm, make_etag(wire.hit.bytes))
        THEN wire.status = 304 /\ wire.body = <<>>
        ELSE wire.status = 200 /\ wire.body = wire.hit.bytes

\* C1 as amended: on a cache hit with bytes B and T = make_etag(B), the response
\* is 304 without body when the If-None-Match value is visible-ASCII text that
\* lists T, and 200 with body B when the header is absent, is not such text, or
\* lists no element equal to T.
C1_ConditionalHit ==
    (wire.on /\ wire.path = "hit") =>
        IF ListedText(wire.inm, make_etag(wire.hit.bytes))
        THEN wire.status = 304 /\ wire.body = <<>>
        ELSE wire.status = 200 /\ wire.body = wire.hit.bytes

\* a hit answered 304 for a validator listed among others, with whitespace
C1_Witness ==
    /\ wire.on /\ wire.path = "hit" /\ wire.status = 304
    /\ wire.inm.value # make_etag(wire.hit.bytes)

\* C2 as claimed: a miss whose fetch, classification and transform succeeded with
\* Output Asset B is answered 304 without body when If-None-Match lists
\* make_etag(B), and 200 with the full body only otherwise.
C2_Claim ==
    (wire.on /\ wire.path = "miss" /\ wire.wrote) =>
        IF ListedText(wire.inm, make_etag(wire.asset))
        THEN wire.status = 304 /\ wire.body = <<>>
        ELSE wire.status = 200 /\ wire.body = wire.asset

Last(S) == CHOOSE x \in S : \A y \in S : y <= x
\* the part of a path segment before its last '.', or all of it
BeforeLastDot(name) ==
    LET dots == {i \in 1..Len(name) : name[i] = "."}
    IN  IF dots = {} THEN name ELSE SubSeq(name, 1, Last(dots) - 1)

\* the requests in progress or just answered: <<path segment, identifier>>
KeyViews ==
    {<<tasks[t].name, tasks[t].key>> : t \in {u \in Tasks : tasks[u].pc # "idle"}}
    \cup (IF wire.on THEN {<<wire.name, wire.key>>} ELSE {})
\* the fetches in progress: <<path segment, URL fetched>>
SrcViews == {<<tasks[t].name, tasks[t].src>> : t \in {u \in Tasks : tasks[u].pc # "idle"}}

\* C3 as claimed: the identifier of every request is its path segment up to the
\* last '.', or the whole segment when it has none.
C3_Claim == \A v \in KeyViews : v[2] = BeforeLastDot(v[1])

\* name is X, or X followed by '.' and a suffix
HasStem(name, X) ==
    \/ name = X
    \/ Len(name) > Len(X) /\ SubSeq(name, 1, Len(X)) = X /\ name[Len(X) + 1] = "."
DotFree(X) == \A i \in 1..Len(X) : X[i] # "."
Stems(name) == {X \in {SubSeq(name, 1, n) : n \in 0..Len(name)} : DotFree(X) /\ HasStem(name, X)}

\* C4: for X without '.', the requests for X and for X.s (any suffix s) use the
\* cache key X and fetch one and the same URL.
C4_SuffixIgnored ==
    /\ \A v \in KeyViews : \A X \in Stems(v[1]) : v[2] = X
    /\ \A v \in SrcViews, w \in SrcViews :
          (Stems(v[1]) \cap Stems(w[1]) # {}) => v[2] = w[2]

\* two fetches in progress for one identifier, one of them named with a
\* suffix that itself holds a '.'
C4_Witness ==
    \E t \in Tasks, u \in Tasks :
        /\ tasks[t].pc # "idle" /\ tasks[u].pc # "idle"
        /\ tasks[t].name = <<"1">> /\ tasks[u].name = <<"1", ".", "a", ".", "w">>
        /\ tasks[t].key = tasks[u].key /\ tasks[t].src = tasks[u].src

ErrorStatuses == {404, 415, 500, 502}

\* C5: a step in which a request ends with 404, 415, 500 or 502 leaves the cache
\* as it was, the request has executed no cache.insert, and a get of its
\* identifier gives after the step what it gave before.
C5_ErrorsLeaveCache ==
    [][(~wire.on /\ wire'.on /\ wire'.status \in ErrorStatuses) =>
          /\ cache' = cache
          /\ ~wire'.wrote
          /\ get(cache', wire'.key, now') = get(cache, wire'.key, now)]_vars

\* the origin answered 404 and the identifier is still absent from the cache
C5_Witness ==
    /\ wire.on /\ wire.status = 404 /\ wire.sendResult = <<"ok", 404>>
    /\ ~get(cache, wire.key, now).some

\* the status the claim assigns to what the origin and the codec did
C6_Expected(send, read) ==
    IF send[1] = "err" THEN 502
    ELSE IF send[2] = 404 THEN 404
    ELSE IF ~(send[2] \in 200..299) THEN 502
    ELSE IF read[1] = "err" THEN 502
    ELSE IF is_animated_webp(read[2]) THEN 200
    ELSE IF ~load_from_memory(read[2]).ok THEN 415
    ELSE IF ~encode_ok(resize(load_from_memory(read[2]))) THEN 500
    ELSE 200

\* C6: on a miss, a transport failure of send or of the body read gives 502, origin
\* status 404 gives 404, another non-success status 502, a decode failure of a
\* static asset 415, an encode failure 500, and 200 is returned only when none
\* occurred; the request has issued one fetch and has ended.
C6_FailureStatus ==
    (wire.on /\ wire.path = "miss") =>
        /\ wire.status = C6_Expected(wire.sendResult, wire.readResult)
        /\ wire.fetches = 1
        /\ tasks[wire.task].pc = "idle"

\* a static body that does not decode was answered 415
C6_Witness ==
    /\ wire.on /\ wire.path = "miss" /\ wire.status = 415
    /\ wire.readResult = <<"ok", JunkSrc>>

\* the entries of key that a get can return and whose inserting request has
\* completed with 200
ServedLive(key) == {e \in cache : e.key = key /\ e.served /\ ~Expired(e, now)}

\* C7: a request that arrives while the cache holds a live entry whose inserting
\* request has completed with 200 is answered in that step from the entry: no
\* fetch, no cache write, status 304 or 200, and on 200 the body the inserting
\* request returned.
C7_ServedFromCache ==
    [][\A t \in Tasks :
        (~wire.on /\ tasks[t].pc = "idle" /\
           (tasks'[t].pc = "sent" \/ (wire'.on /\ wire'.task = t))) =>
        LET key == IF wire'.on THEN wire'.key ELSE tasks'[t].key
        IN  \A e \in ServedLive(key) :
              /\ wire'.on /\ wire'.path = "hit"
              /\ wire'.fetches = 0 /\ ~wire'.wrote
              /\ tasks'[t].pc = "idle"
              /\ cache' = cache
              /\ wire'.status \in {200, 304}
              /\ wire'.status = 200 => wire'.body = e.servedBody]_vars

\* a hit answered 200 from an entry whose inserting request has completed,
\* while the origin is being asked again by no one
C7_Witness ==
    /\ wire.on /\ wire.path = "hit" /\ wire.status = 200
    /\ wire.hit.served /\ wire.body = wire.hit.servedBody
    /\ now > wire.hit.at

InTTL(i) == now - i.at < time_to_live

\* C8 as claimed: before the TTL has elapsed since the latest insert of a key, get
\* returns the inserted asset, whatever was inserted for other identifiers;
\* after it has elapsed, get returns absent.
C8_Claim ==
    \A i \in lastInsert :
        /\ InTTL(i) => get(cache, i.key, now) = Some(i.bytes)
        /\ ~InTTL(i) => get(cache, i.key, now) = None

\* C8 as amended: before the TTL has elapsed since the latest insert of a key, get
\* returns the inserted asset unless the entry was evicted to keep the cache
\* within its capacity, and then it returns absent; after the TTL has elapsed,
\* get returns absent.
C8_GetAfterInsert ==
    \A i \in lastInsert :
        /\ (InTTL(i) /\ ~i.evicted) => get(cache, i.key, now) = Some(i.bytes)
        /\ (InTTL(i) /\ i.evicted) => get(cache, i.key, now) = None
        /\ ~InTTL(i) => get(cache, i.key, now) = None

\* an asset inserted one tick ago is returned while the cache is at capacity
C8_Witness ==
    \E i \in lastInsert :
        /\ now = i.at + TickSecs /\ ~i.evicted
        /\ others + Cardinality(cache) = max_capacity
        /\ get(cache, i.key, now) = Some(i.bytes)

\* C9: a response with an ETag carries make_etag of the request's Output Asset
\* (the body on 200, the cached bytes on 304); the ETag of a hit is the one the
\* request that inserted the entry returned, before or after the hit.
C9_EtagOfAsset ==
    (wire.on /\ wire.etag.present) =>
        /\ wire.etag.value = make_etag(wire.asset)
        /\ wire.status = 200 => wire.asset = wire.body
        /\ wire.status = 304 => wire.asset = wire.hit.bytes
        /\ (wire.path = "hit" /\ wire.hit.served) => wire.etag.value = wire.hit.servedEtag
        /\ wire.path = "miss" => \A x \in wire.hitEtags : x = wire.etag.value

\* a miss returns after a hit was served from the entry it inserted and
\* another request has replaced that entry
C9_Witness ==
    /\ wire.on /\ wire.path = "miss" /\ wire.status = 200
    /\ wire.hitEtags # {}
    /\ \E e \in cache : e.key = wire.key /\ e.bytes # wire.asset

\* C10 as claimed: is_animated_webp returns true for every well-formed container
\* with an ANIM chunk at any position.
C10_Claim ==
    (snPc = "returned" /\ WellFormed(snBuf) /\ HasChunk(snBuf, ANIM)) => snResult = TRUE

\* the offset of the first chunk of the given type
FirstChunk(data, type) == Min({p \in ChunkOffsets(data, 12) : chunk_type(data, p) = type})
\* bit 0x02 of the byte at payload offset 0 of the first VP8X chunk
Vp8xAnimationBit(data) == (At(data, FirstChunk(data, VP8X) + 8) \div 2) % 2 = 1
\* a well-formed container with a VP8X chunk that has a flags byte
HasVp8xFlags(data) ==
    /\ WellFormed(data)
    /\ HasChunk(data, VP8X)
    /\ chunk_size(data, FirstChunk(data, VP8X)) >= 1
AnimBeforeVp8x(data) ==
    HasChunk(data, ANIM) /\ FirstChunk(data, ANIM) < FirstChunk(data, VP8X)

\* C11 as claimed: for every well-formed container with a VP8X chunk,
\* is_animated_webp returns true exactly when bit 0x02 of the first payload byte
\* of that chunk is set, whatever chunks precede or follow it.
C11_Claim ==
    (snPc = "returned" /\ HasVp8xFlags(snBuf)) => snResult = Vp8xAnimationBit(snBuf)

\* C11 as amended: for every well-formed container with a VP8X chunk,
\* is_animated_webp returns true when an ANIM chunk precedes the VP8X chunk, and
\* otherwise true exactly when bit 0x02 of the first payload byte of the VP8X
\* chunk is set, whatever other chunks precede it and whatever chunks follow.
C11_Vp8xDecides ==
    (snPc = "returned" /\ HasVp8xFlags(snBuf)) =>
        snResult = (AnimBeforeVp8x(snBuf) \/ Vp8xAnimationBit(snBuf))

\* the walk passed another chunk and returned true at a VP8X chunk whose flags
\* have the animation bit and the alpha bit set
C11_Witness ==
    /\ snPc = "returned" /\ HasVp8xFlags(snBuf) /\ snResult = TRUE
    /\ ~HasChunk(snBuf, ANIM)
    /\ FirstChunk(snBuf, VP8X) > 12
    /\ At(snBuf, FirstChunk(snBuf, VP8X) + 8) = 18

\* C12: is_animated_webp returns false for every buffer shorter than 12 bytes,
\* every buffer whose bytes 0..4 are not RIFF or bytes 8..12 are not WEBP, and
\* every well-formed container with neither a VP8X nor an ANIM chunk.
C12_StaticWithoutMarkers ==
    snPc = "returned" =>
        /\ Len(snBuf) < 12 => snResult = FALSE
        /\ (Len(snBuf) >= 12 /\ (Slice(snBuf, 0, 4) # RIFF \/ Slice(snBuf, 8, 12) # WEBP))
              => snResult = FALSE
        /\ (WellFormed(snBuf) /\ ~HasChunk(snBuf, VP8X) /\ ~HasChunk(snBuf, ANIM))
              => snResult = FALSE

\* the walk went through two chunks of a well-formed container, neither VP8X
\* nor ANIM, and returned false at the end of the buffer
C12_Witness ==
    /\ snPc = "returned" /\ snResult = FALSE
    /\ WellFormed(snBuf) /\ ~HasChunk(snBuf, VP8X) /\ ~HasChunk(snBuf, ANIM)
    /\ Cardinality(ChunkOffsets(snBuf, 12)) = 2
    /\ snPos = Len(snBuf)

Abs(x) == IF x >= 0 THEN x ELSE -x
\* v is num / den rounded to an integer (either way at a half), and at least 1
RoundedQuotient(num, den, v) ==
    \/ 2 * Abs(v * den - num) <= den
    \/ v = 1 /\ 2 * num < den
\* (w, h) is the largest pair inside the box with the aspect ratio of W x H:
\* one side fills the box and the other is the proportional length, rounded
LargestInBox(W, H, w, h) ==
    /\ w >= 1 /\ h >= 1 /\ w <= BOX /\ h <= BOX
    /\ \/ w = BOX /\ RoundedQuotient(H * BOX, W, h)
       \/ h = BOX /\ RoundedQuotient(W * BOX, H, w)
\* width and height of a still image as write_to encodes them, and of a source
SourceDims(body) == <<u32_from_be_bytes(Slice(body, 16, 20)), u32_from_be_bytes(Slice(body, 20, 24))>>
OutputDims(body) == <<At(body, 21) + 1, At(body, 22) + 1>>
StaticServed ==
    /\ wire.on /\ wire.path = "miss" /\ wire.status = 200
    /\ ~is_animated_webp(wire.readResult[2])

\* C13: for every decodable static source of W x H, also one smaller than the
\* box, the Output Asset of the static path has the largest dimensions (w, h)
\* with w <= 160, h <= 160 and w/h equal to W/H within integer rounding.
C13_LargestFit ==
    StaticServed =>
        LargestInBox(SourceDims(wire.readResult[2])[1], SourceDims(wire.readResult[2])[2],
                     OutputDims(wire.body)[1], OutputDims(wire.body)[2])

\* a 3 x 2 source, smaller than the box, was served as 160 x 107
C13_Witness ==
    /\ StaticServed
    /\ SourceDims(wire.readResult[2]) = <<3, 2>>
    /\ OutputDims(wire.body) = <<160, 107>>

\* the indices of data the loop iteration at pos reads (lines 244-252)
IndicesRead(data, pos) ==
    (pos .. pos + 7) \cup
    (IF chunk_type(data, pos) = VP8X /\ pos + 8 < Len(data) THEN {pos + 8} ELSE {})
\* the chunk at p declares a payload that runs past the end of the buffer
RunsPastEnd(data, p) == p + 8 + chunk_size(data, p) > Len(data)
\* the walk reaches a chunk that runs past the end: the signature is accepted
\* and no VP8X or ANIM chunk comes before that chunk
ReachesOverrun(data) ==
    /\ ~HeaderRejected(data)
    /\ \E p \in ChunkOffsets(data, 12) :
          /\ RunsPastEnd(data, p)
          /\ \A q \in ChunkOffsets(data, 12) :
                q < p => chunk_type(data, q) \notin {VP8X, ANIM}

\* C14 as claimed: the chunk walk reads no index at or beyond the buffer length,
\* and when it reaches a chunk whose declared size runs past the buffer end the
\* function returns false (Static).
C14_Claim ==
    /\ (snPc = "loop" /\ WalkContinues(snBuf, snPos)) =>
          \A i \in IndicesRead(snBuf, snPos) : i < Len(snBuf)
    /\ (snPc = "returned" /\ ReachesOverrun(snBuf)) => snResult = FALSE

\* C15: the expiry of an entry is its insertion time plus the TTL.  From then on
\* get returns absent however often the entry was hit in between; the entry the
\* cache holds for a key dates from the latest insert of the key, and until the
\* TTL has elapsed since that insert (and absent eviction) get returns its asset.
C15_FixedExpiry ==
    \A i \in lastInsert :
        /\ now >= i.at + time_to_live => get(cache, i.key, now) = None
        /\ \A e \in cache : e.key = i.key => e.at = i.at /\ e.bytes = i.bytes
        /\ (now < i.at + time_to_live /\ ~i.evicted) => get(cache, i.key, now).some

\* an entry hit after its insertion is absent once the TTL has elapsed since
\* the insertion, less than the TTL after the hit, while the cache still holds it
C15_Witness ==
    \E i \in lastInsert :
        /\ i.hitAt > i.at
        /\ now = i.at + time_to_live
        /\ \E e \in cache : e.key = i.key /\ e.at = i.at
        /\ get(cache, i.key, now) = None

\* the requests whose cache.insert has returned and which have not yet answered
InsertReturned == {t \in Tasks : tasks[t].pc = "respond"}

\* C16: the cache holds at most one asset per identifier, and it is the whole
\* argument of an insert executed for that identifier; once the insert of a
\* request has returned, a get for the identifier returns the asset of that
\* insert or of another insert for the same identifier.
C16_OneAssetPerId ==
    /\ \A e1 \in cache, e2 \in cache : e1.key = e2.key => e1 = e2
    /\ \A e \in cache : \E i \in lastInsert : i.key = e.key /\ i.bytes = e.bytes
    /\ \A t \in InsertReturned :
          /\ get(cache, tasks[t].key, now).some
          /\ \/ get(cache, tasks[t].key, now).v = tasks[t].bytes
             \/ \E i \in lastInsert :
                   i.key = tasks[t].key /\ i.bytes = get(cache, tasks[t].key, now).v

\* two requests missed for one identifier and both inserts have returned: the
\* cache holds the asset of one of them, which differs from the other's
C16_Witness ==
    \E t \in InsertReturned, u \in InsertReturned :
        /\ t # u /\ tasks[t].key = tasks[u].key
        /\ tasks[t].bytes # tasks[u].bytes
        /\ get(cache, tasks[t].key, now) = Some(tasks[u].bytes)
        /\ Cardinality({e \in cache : e.key = tasks[t].key}) = 1

\* the requests that have computed their Output Asset
Computed == {t \in Tasks : tasks[t].pc \in {"insert", "respond"}}

Stored(c, o) ==
    {e \in c : \A x \in o : x.key # e.key \/ x.bytes # e.bytes \/ x.at # e.at}
\* bytes is the complete Output Asset of body: the whole body of an animated
\* source, or the encoded resized image of a still one
CompleteAsset(body, bytes) ==
    \/ is_animated_webp(body) /\ bytes = body
    \/ /\ ~is_animated_webp(body)
       /\ load_from_memory(body).ok
       /\ encode_ok(resize(load_from_memory(body)))
       /\ bytes = write_to(resize(load_from_memory(body)))

\* C18: every value stored in the cache under a key is the complete Output Asset
\* of a successful fetch of that key's URL, stored by the request that fetched
\* it; a request dropped during send, during the body read or before its
\* cache.insert took effect has written nothing to the cache.
C18_OnlyCompleteAssets ==
    [][/\ \A e \in Stored(cache', cache) :
             \E t \in Tasks :
                 /\ tasks[t].pc = "insert" /\ tasks'[t].wrote
                 /\ tasks[t].key = e.key /\ tasks[t].src = format_src(e.key)
                 /\ tasks[t].sendResult[1] = "ok" /\ tasks[t].sendResult[2] \in 200..299
                 /\ tasks[t].readResult[1] = "ok"
                 /\ CompleteAsset(tasks[t].readResult[2], e.bytes)
       /\ \A t \in Tasks :
             (tasks[t].pc \in {"sent", "reading", "insert"} /\ wire'.on /\ wire'.task = t
                /\ wire'.path = "dropped") =>
                 ~wire'.wrote /\ cache' = cache]_vars

\* a request was dropped while the body was being read, and the cache holds
\* nothing for its identifier
C18_Witness ==
    /\ wire.on /\ wire.path = "dropped"
    /\ wire.sendResult = <<"ok", 200>> /\ wire.readResult = NoRead
    /\ ~wire.wrote
    /\ \A e \in cache : e.key # wire.key

TerminalStatuses == {200, 304, 404, 415, 500, 502}

\* C19 as claimed: a request that waits for the origin (for the response or for
\* the body) does not wait forever: unless its client drops it, it eventually
\* returns a response with one of the terminal statuses, 502 when the origin
\* never answers.
C19_Claim ==
    \A t \in Tasks :
        (tasks[t].pc \in {"sent", "reading"}) ~>
            (wire.on /\ wire.task = t /\
               (wire.status \in TerminalStatuses \/ wire.path = "dropped"))

\* the body the origin sent to the request is classified Animated
AnimatedSource(read) == read[1] = "ok" /\ is_animated_webp(read[2])

\* C20: when the fetched source is classified Animated, the bytes the request
\* inserts into the cache and its response body are the fetched bytes, unchanged,
\* and the request ends with 200, never with 415 or 500.
C20_PassThrough ==
    /\ \A t \in Computed :
          AnimatedSource(tasks[t].readResult) =>
              /\ tasks[t].bytes = tasks[t].readResult[2]
              /\ \A e \in cache : e.by = t => e.bytes = tasks[t].readResult[2]
    /\ (wire.on /\ wire.path = "miss" /\ AnimatedSource(wire.readResult)) =>
          /\ wire.status = 200
          /\ wire.body = wire.readResult[2]
          /\ wire.wrote

\* an animated source that the decoder would reject was served as it came,
\* and the cache holds the same bytes
C20_Witness ==
    /\ wire.on /\ wire.path = "miss" /\ wire.status = 200
    /\ wire.readResult = <<"ok", AnimSrc>>
    /\ ~load_from_memory(AnimSrc).ok
    /\ wire.body = AnimSrc
    /\ get(cache, wire.key, now) = Some(AnimSrc)

=============================================================================
